---- MODULE Spec2Model ----
(***************************************************************************)
(* A model of libi2pd/LeaseSet.cpp: the remote lease set record (LeaseSet, *)
(* LeaseSet2), its lease reconciliation, its freshness queries, and the    *)
(* construction of the local lease sets.                                   *)
(*                                                                         *)
(* A buffer is modelled by its layout: the identity it starts with, the    *)
(* lease count byte, the leases that follow and the number of bytes the    *)
(* caller supplied (len).  Offsets are the byte offsets of the code.  A    *)
(* read at an offset >= len is undefined behaviour: the value read is then *)
(* any value (ReadViews).                                                  *)
(*                                                                         *)
(* uint64_t arithmetic is arithmetic modulo 2^WordBits; WordBits is a      *)
(* bound of the model (TLC's integers are 32 bits wide).                   *)
(*                                                                         *)
(* netdb.FindRouter / netdb.RequestDestination (LeaseSet.cpp 147-152) act  *)
(* on the network database only, which is no state of the record, and are  *)
(* left out.  So is the key material (m_EncryptionKey, m_Encryptor): the   *)
(* reads that fetch it are counted in maxRead.                             *)
(*                                                                         *)
(* Spec is the remote record with buffers that hold what they declare,     *)
(* SpecTrunc the same with buffers cut before the signature, SpecTs the    *)
(* record asked whether a buffer is newer, SpecLocal the local lease sets. *)
(***************************************************************************)
EXTENDS Integers, Sequences, FiniteSets, TLC

VARIABLES
    m_IsValid,        \* LeaseSet::m_IsValid
    m_StoreLeases,    \* LeaseSet::m_StoreLeases
    m_ExpirationTime, \* LeaseSet::m_ExpirationTime
    m_Identity,       \* LeaseSet::m_Identity (NoIdentity: nullptr)
    m_Buffer,         \* LeaseSet::m_Buffer with m_BufferLen (NoBuffer: nullptr)
    m_Leases,         \* LeaseSet::m_Leases: the Lease objects of the set
    released,         \* the Lease objects the last operation took out of the set
    now,              \* i2p::util::GetMillisecondsSinceEpoch ()
    lastOp,           \* the last operation, its arguments and the exit it took
    maxRead,          \* one more than the highest byte index the last decode read
    m_StoreType,      \* LeaseSet2::m_StoreType
    cand,             \* the argument of the last call of a pure function
    result            \* what that call returned

vars == << m_IsValid, m_StoreLeases, m_ExpirationTime, m_Identity, m_Buffer,
           m_Leases, released, now, lastOp, maxRead, m_StoreType, cand, result >>

(***************************************************************************)
(* Program constants.                                                      *)
(***************************************************************************)
MAX_NUM_LEASES == 16
LEASE_ENDDATE_THRESHOLD == 51000
LEASE_SIZE == 44
LEASE2_SIZE == 40
ENCRYPTION_KEY_SIZE == 256
TUNNEL_EXPIRATION_TIMEOUT == 660
TUNNEL_EXPIRATION_THRESHOLD == 60

(***************************************************************************)
(* Bounds of the model.                                                    *)
(***************************************************************************)
WordBits == 20
MaxNum == 2

Word == 2 ^ WordBits
\* uint64_t: a value reduced modulo the word size
U64(x) == x % Word

NoIdentity == [fullLen |-> 0, spkLen |-> 0, sigLen |-> 0, none |-> TRUE]
NoBuffer == [id |-> NoIdentity, num |-> 0, leases |-> << >>, sigOK |-> FALSE, len |-> 0]

\* The destination's identity: DSA keys, no extended certificate.
StdIdentity == [fullLen |-> 387, spkLen |-> 128, sigLen |-> 40, none |-> FALSE]

(***************************************************************************)
(* Inputs.                                                                 *)
(***************************************************************************)
\* (gateway, tunnel id) of the leases of the inputs: two share a gateway,
\* two share a tunnel id.
LeaseKeys == { <<1, 1>>, <<1, 2>>, <<2, 1>> }
\* lease end dates (ms): one below the threshold, which is expired at the
\* second clock reading and not at the first, and one never expired
EndDates == { 10000, 300000 }
\* clock readings (ms)
Times == { 60000, 70000 }

WireLeases ==
    { [tunnelGateway |-> k[1], tunnelID |-> k[2], endDate |-> e] :
        k \in LeaseKeys, e \in EndDates }

\* Leases are compared by (gateway, tunnel id).
SameKey(a, b) == a.tunnelGateway = b.tunnelGateway /\ a.tunnelID = b.tunnelID

\* the order of the keys in the lease lists of the inputs
KeyLess(a, b) ==
    \/ a.tunnelID < b.tunnelID
    \/ a.tunnelID = b.tunnelID /\ a.tunnelGateway < b.tunnelGateway

\* the lists of up to n leases of S with increasing keys
RECURSIVE SeqsUpTo(_, _)
SeqsUpTo(S, n) ==
    IF n = 0 THEN { << >> }
    ELSE LET shorter == SeqsUpTo(S, n - 1)
         IN shorter \cup
            UNION { { Append(s, x) : x \in { y \in S : n = 1 \/ KeyLess(s[n - 1], y) } } :
                    s \in { t \in shorter : Len(t) = n - 1 } }

\* the lists that name one key twice
TwiceLists(S) == { t \in { << x, y >> : x \in S, y \in S } : SameKey(t[1], t[2]) }

\* with n leases of the same value
Repeated(l, n) == [i \in 1..n |-> l]

\* the byte offset of the lease count in a legacy buffer of identity id
NumOffset(id) == id.fullLen + ENCRYPTION_KEY_SIZE + id.spkLen
\* the length of a legacy buffer that holds n leases and the signature
LegacyLen(id, n) == NumOffset(id) + 1 + n * LEASE_SIZE + id.sigLen

\* Legacy buffers that hold everything they declare, of a destination's
\* identity: up to MaxNum leases, one key twice, or MAX_NUM_LEASES + 1
\* equal leases.
LeaseLists ==
    SeqsUpTo(WireLeases, MaxNum)
    \cup TwiceLists(WireLeases)
    \cup { Repeated(l, MAX_NUM_LEASES + 1) : l \in { w \in WireLeases : w.tunnelID = 1 /\ w.tunnelGateway = 1 } }

CompleteBuffers ==
    { [id |-> StdIdentity, num |-> Len(ls), leases |-> ls, sigOK |-> ok,
       len |-> LegacyLen(StdIdentity, Len(ls))] :
        ls \in LeaseLists, ok \in BOOLEAN }

\* A buffer too short for the identity it starts with.
ShortBuffers ==
    { [id |-> StdIdentity, num |-> 0, leases |-> << >>, sigOK |-> FALSE, len |-> n] :
        n \in { StdIdentity.fullLen - 1 } }

(***************************************************************************)
(* Reads.                                                                  *)
(***************************************************************************)
\* What the bytes of buf read as: the bytes below buf.len are the buffer's,
\* a read at or above buf.len returns anything.
NumViews(buf, id) ==
    IF NumOffset(id) < buf.len THEN { buf.num } ELSE { 0, 1, MaxNum, MAX_NUM_LEASES + 1 }

\* the i-th lease (from 1) of a legacy buffer ends at this offset
LeaseEnd(id, i) == NumOffset(id) + 1 + i * LEASE_SIZE

\* what a lease read outside the buffer reads as: a sample of the values,
\* one expired at the second clock reading and one not
UnreadLeases == { w \in WireLeases : w.tunnelGateway = 1 /\ w.tunnelID = 1 }

LeaseViews(buf, id, i) ==
    IF LeaseEnd(id, i) <= buf.len /\ i <= Len(buf.leases) THEN { buf.leases[i] } ELSE UnreadLeases

\* every lease list of n leases the buffer can read as
RECURSIVE LeaseListViews(_, _, _)
LeaseListViews(buf, id, n) ==
    IF n = 0 THEN { << >> }
    ELSE { Append(s, x) : s \in LeaseListViews(buf, id, n - 1), x \in LeaseViews(buf, id, n) }

(***************************************************************************)
(* Lease reconciliation.                                                   *)
(***************************************************************************)
\* UpdateLeasesBegin that clears the set of a materializing record too
UpdateLeasesBegin_Clears(store, leases) == [leases |-> {}, released |-> leases]

\* the leases, and the Lease objects taken out of the set (clear)
UpdateLeasesBegin(store, leases) ==
    IF store
    THEN [leases |-> { [l EXCEPT !.isUpdated = FALSE] : l \in leases }, released |-> {}]
    ELSE [leases |-> {}, released |-> leases]

\* UpdateLeasesEnd that erases the old leases and leaves their end dates
UpdateLeasesEnd_KeepsEndDate(store, leases) ==
    IF store
    THEN [leases |-> { l \in leases : l.isUpdated },
          released |-> { x \in leases : ~x.isUpdated }]
    ELSE [leases |-> leases, released |-> {}]

\* the leases, and the Lease objects taken out of the set
UpdateLeasesEnd(store, leases) ==
    IF store
    THEN [leases |-> { l \in leases : l.isUpdated },
          released |-> { [l EXCEPT !.endDate = 0] : l \in { x \in leases : ~x.isUpdated } }]
    ELSE [leases |-> leases, released |-> {}]

\* the Lease object UpdateLease makes of a lease, marked updated
NewLease(lease) ==
    [tunnelGateway |-> lease.tunnelGateway, tunnelID |-> lease.tunnelID,
     endDate |-> lease.endDate, isUpdated |-> TRUE]

\* Insert that leaves the end date of a lease the set holds
Insert_KeepsEndDate(leases, lease) ==
    IF \E l \in leases : SameKey(l, lease)
    THEN { IF SameKey(l, lease) THEN [l EXCEPT !.isUpdated = TRUE] ELSE l : l \in leases }
    ELSE leases \cup { NewLease(lease) }

\* m_Leases.insert and the update of the lease found: the set is ordered by
\* (tunnelID, tunnelGateway)
Insert(leases, lease) ==
    IF \E l \in leases : SameKey(l, lease)
    THEN { IF SameKey(l, lease)
           THEN [l EXCEPT !.endDate = lease.endDate, !.isUpdated = TRUE]
           ELSE l : l \in leases }
    ELSE leases \cup { NewLease(lease) }

\* the test of UpdateLease: the lease has not expired at ts
NotExpired(lease, ts) == ts < U64(lease.endDate + LEASE_ENDDATE_THRESHOLD)

\* UpdateLease that inserts the lease whether the record materializes or not
UpdateLease_StoresAlways(store, st, lease, ts) ==
    IF NotExpired(lease, ts)
    THEN [exp |-> IF lease.endDate > st.exp THEN lease.endDate ELSE st.exp,
          leases |-> Insert(st.leases, lease)]
    ELSE st

\* st: [leases, exp], the lease set and m_ExpirationTime
UpdateLease(store, st, lease, ts) ==
    IF NotExpired(lease, ts)
    THEN [exp |-> IF lease.endDate > st.exp THEN lease.endDate ELSE st.exp,
          leases |-> IF store THEN Insert(st.leases, lease) ELSE st.leases]
    ELSE st

RECURSIVE UpdateAll(_, _, _, _, _)
UpdateAll(store, st, ls, i, ts) ==
    IF i > Len(ls) THEN st
    ELSE UpdateAll(store, UpdateLease(store, st, ls[i], ts), ls, i + 1, ts)

(***************************************************************************)
(* Legacy decode.                                                          *)
(***************************************************************************)
\* IdentityEx (buf, len): the identity the buffer starts with
IdentityEx(buf) == buf.id

\* What a legacy buffer reads as: the lease count, and the leases when the
\* count lets the decoder go on to them.  Nothing is read of a buffer
\* shorter than the identity.
ReadViews(buf, id) ==
    IF id.fullLen > buf.len THEN { [num |-> 0, leases |-> << >>] }
    ELSE UNION { { [num |-> n, leases |-> ls] :
                     ls \in IF n = 0 \/ n > MAX_NUM_LEASES THEN { << >> }
                            ELSE LeaseListViews(buf, id, n) } :
                 n \in NumViews(buf, id) }

\* Verify (m_Buffer, leases - m_Buffer, leases): the signature is read at
\* offset off; when it lies outside the buffer anything is read.
VerifyViews(buf, id, off) ==
    IF off + id.sigLen <= buf.len THEN { buf.sigOK } ELSE BOOLEAN

\* the lease count the decoder accepts
NumOK(num) == ~(num = 0 \/ num > MAX_NUM_LEASES)

\* the threshold is left out of m_ExpirationTime
AddThreshold_None(exp) == exp

\* verification is done, and decides, whether requested or not
SignatureFails_Always(verifySignature, verified) == ~verified

\* verifySignature && !m_Identity->Verify (...)
SignatureFails(verifySignature, verified) == verifySignature /\ ~verified

\* m_ExpirationTime += LEASE_ENDDATE_THRESHOLD
AddThreshold(exp) == U64(exp + LEASE_ENDDATE_THRESHOLD)

\* rec: [valid, store, exp, identity, leases]; view: what the buffer reads
\* as; verified: what Verify returns.  The result adds the Lease objects
\* released, the extent of the reads and the exit taken.
ReadFromBuffer(rec, buf, view, readIdentity, verifySignature, ts, verified) ==
    LET identity == IF readIdentity \/ rec.identity.none THEN IdentityEx(buf) ELSE rec.identity
        size == identity.fullLen
        numEnd == NumOffset(identity) + 1
        num == view.num
        begun == UpdateLeasesBegin(rec.store, rec.leases)
        st == UpdateAll(rec.store, [exp |-> 0, leases |-> begun.leases], view.leases, 1, ts)
        leasesEnd == numEnd + num * LEASE_SIZE
        ended == UpdateLeasesEnd(rec.store, st.leases)
    IN  IF size > buf.len
        THEN [valid |-> FALSE, store |-> rec.store, exp |-> rec.exp, identity |-> identity,
              leases |-> rec.leases, released |-> {}, read |-> 0, exit |-> "identity"]
        ELSE IF ~NumOK(num)
        THEN [valid |-> FALSE, store |-> rec.store, exp |-> rec.exp, identity |-> identity,
              leases |-> rec.leases, released |-> {}, read |-> numEnd, exit |-> "num"]
        ELSE IF st.exp = 0
        THEN [valid |-> FALSE, store |-> rec.store, exp |-> 0, identity |-> identity,
              leases |-> st.leases, released |-> begun.released,
              read |-> leasesEnd, exit |-> "expired"]
        ELSE IF SignatureFails(verifySignature, verified)
        THEN [valid |-> FALSE, store |-> rec.store,
              exp |-> AddThreshold(st.exp), identity |-> identity,
              leases |-> ended.leases, released |-> begun.released \cup ended.released,
              read |-> leasesEnd + identity.sigLen, exit |-> "sig"]
        ELSE [valid |-> rec.valid, store |-> rec.store,
              exp |-> AddThreshold(st.exp), identity |-> identity,
              leases |-> ended.leases, released |-> begun.released \cup ended.released,
              read |-> IF verifySignature THEN leasesEnd + identity.sigLen ELSE leasesEnd,
              exit |-> "ok"]

\* the record as the variables hold it
Record ==
    [valid |-> m_IsValid, store |-> m_StoreLeases, exp |-> m_ExpirationTime,
     identity |-> m_Identity, leases |-> m_Leases]

\* the variables after a decode that returned r
Decoded(r, buf, op, verify, repeat) ==
    /\ m_IsValid' = r.valid
    /\ m_StoreLeases' = r.store
    /\ m_ExpirationTime' = r.exp
    /\ m_Identity' = r.identity
    /\ m_Buffer' = buf
    /\ m_Leases' = r.leases
    /\ released' = r.released
    /\ maxRead' = r.read
    /\ lastOp' = [op |-> op, verify |-> verify, exit |-> r.exit, repeat |-> repeat]

IsDecode(op) == op \in { "LeaseSet", "Update", "PopulateLeases" }

(***************************************************************************)
(* LeaseSet2 decode.                                                       *)
(***************************************************************************)
\* a v2 lease carries its end date in seconds
EndDateOf2(lease) == U64(lease.endDate * 1000)

Max2(a, b) == IF a > b THEN a ELSE b

\* The offline key block at offset (LeaseSet.cpp 271-283 and 413-425);
\* sigLen is the signature length of the identity or blinded key that
\* certifies the offline key.  ok: the decode goes on.
OfflineBlock(buf, offset, sigLen) ==
    IF offset + 6 >= buf.len
    THEN [ok |-> FALSE, offset |-> offset, read |-> offset]
    ELSE IF ~buf.offkey.known
    THEN [ok |-> FALSE, offset |-> offset + 6, read |-> offset + 6]
    ELSE IF offset + 6 + buf.offkey.keyLen >= buf.len
    THEN [ok |-> FALSE, offset |-> offset + 6, read |-> offset + 6]
    ELSE IF offset + 6 + buf.offkey.keyLen + sigLen >= buf.len
    THEN [ok |-> FALSE, offset |-> offset + 6 + buf.offkey.keyLen,
          read |-> offset + 6 + buf.offkey.keyLen]
    ELSE [ok |-> buf.offkey.certOK,
          offset |-> offset + 6 + buf.offkey.keyLen + sigLen,
          read |-> offset + 6 + buf.offkey.keyLen + sigLen]

\* The key sections from the i-th on, at offset off of a part of len bytes
\* that starts at byte base of the buffer: whether all fit, the offset after
\* them, and the extent of the reads.
RECURSIVE KeySections(_, _, _, _, _, _)
KeySections(keys, base, len, off, i, read) ==
    IF i > Len(keys) THEN [ok |-> TRUE, off |-> off, read |-> read]
    ELSE IF off + 2 + 2 >= len
    THEN [ok |-> FALSE, off |-> off + 2, read |-> Max2(read, base + off + 2)]
    ELSE IF off + 4 + keys[i] >= len
    THEN [ok |-> FALSE, off |-> off + 4, read |-> Max2(read, base + off + 4)]
    ELSE KeySections(keys, base, len, off + 4 + keys[i], i + 1,
                     Max2(read, base + off + 4 + keys[i]))

\* the leases of a v2 buffer as Lease values
Leases2(buf, n) ==
    [i \in 1..n |-> [tunnelGateway |-> buf.leases[i].tunnelGateway,
                     tunnelID |-> buf.leases[i].tunnelID,
                     endDate |-> EndDateOf2(buf.leases[i])]]

\* how many of n leases of LEASE2_SIZE bytes fit from offset off in len bytes
RECURSIVE LeasesThatFit(_, _, _)
LeasesThatFit(n, off, len) ==
    IF n = 0 \/ off + LEASE2_SIZE > len THEN 0
    ELSE 1 + LeasesThatFit(n - 1, off + LEASE2_SIZE, len)

\* The part of the buffer from byte base on is decoded; rec is the record.
\* s: the bytes consumed (0: failure).
ReadStandardLS2TypeSpecificPart(rec, buf, base, ts) ==
    LET len == buf.len - base
        off1 == 2 + buf.propertiesLen
        ks == KeySections(buf.keys, base, len, off1 + 1, 1, base + off1 + 1)
        off2 == ks.off + 1
        fit == LeasesThatFit(buf.numLeases, off2, len)
        begun == UpdateLeasesBegin(rec.store, rec.leases)
        st == UpdateAll(rec.store, [exp |-> rec.exp, leases |-> begun.leases],
                        Leases2(buf, fit), 1, ts)
        ended == UpdateLeasesEnd(rec.store, st.leases)
        failed(read) == [s |-> 0, exp |-> rec.exp, leases |-> rec.leases,
                         released |-> {}, read |-> read]
    IN  IF off1 + 1 >= len THEN failed(base + 2)
        ELSE IF ~ks.ok THEN failed(ks.read)
        ELSE IF ks.off + 1 >= len THEN failed(ks.read)
        ELSE IF ~rec.store
        THEN [s |-> off2 + buf.numLeases * LEASE2_SIZE, exp |-> rec.exp,
              leases |-> rec.leases, released |-> {}, read |-> base + off2]
        ELSE IF fit < buf.numLeases
        THEN [s |-> 0, exp |-> st.exp, leases |-> st.leases,
              released |-> begun.released, read |-> base + off2 + fit * LEASE2_SIZE]
        ELSE [s |-> off2 + buf.numLeases * LEASE2_SIZE, exp |-> st.exp,
              leases |-> ended.leases, released |-> begun.released \cup ended.released,
              read |-> base + off2 + buf.numLeases * LEASE2_SIZE]

\* how many of n items of size bytes pass the check of the loop from off
RECURSIVE ItemsThatFit(_, _, _, _, _)
ItemsThatFit(n, size, off, len, strict) ==
    IF n = 0 \/ (IF strict THEN off + size >= len ELSE off + size > len) THEN 0
    ELSE 1 + ItemsThatFit(n - 1, size, off + size, len, strict)

ReadMetaLS2TypeSpecificPart(buf, base) ==
    LET len == buf.len - base
        off1 == 2 + buf.propertiesLen
        entries == ItemsThatFit(buf.numEntries, 40, off1 + 1, len, TRUE)
        off2 == off1 + 1 + buf.numEntries * 40
        revocations == ItemsThatFit(buf.numRevocations, 32, off2 + 1, len, FALSE)
    IN  IF off1 + 1 >= len THEN [s |-> 0, read |-> base + 2]
        ELSE IF entries < buf.numEntries THEN [s |-> 0, read |-> base + off1 + 1]
        ELSE IF off2 + 1 >= len THEN [s |-> 0, read |-> base + off1 + 1]
        ELSE IF revocations < buf.numRevocations THEN [s |-> 0, read |-> base + off2 + 1]
        ELSE [s |-> off2 + 1 + buf.numRevocations * 32, read |-> base + off2 + 1]

\* VerifySignature (verifier, buf, len, signatureOffset)
VerifySignature(buf, sigLen, signatureOffset) ==
    IF signatureOffset + sigLen > buf.len THEN FALSE ELSE buf.sigOK

\* LeaseSet2::ReadFromBuffer (buf, len) on the record rec of LeaseSet
\* (storeLeases).  Result: the record, the Lease objects released, the
\* extent of the reads and the exit taken.
ReadFromBuffer2(rec, buf, storeType, ts) ==
    LET identity == IdentityEx(buf)
        offset0 == identity.fullLen
        exp1 == U64((buf.timestamp + buf.expires) * 1000)
        hdr == [rec EXCEPT !.identity = identity, !.exp = exp1]
        ob == IF buf.offline THEN OfflineBlock(buf, offset0 + 8, identity.sigLen)
              ELSE [ok |-> TRUE, offset |-> offset0 + 8, read |-> offset0 + 8]
        sigLen == IF buf.offline THEN buf.offkey.sigLen ELSE identity.sigLen
        std == ReadStandardLS2TypeSpecificPart(hdr, buf, ob.offset, ts)
        meta == ReadMetaLS2TypeSpecificPart(buf, ob.offset)
        out(r, rel, read, exit) ==
            [valid |-> r.valid, store |-> r.store, exp |-> r.exp, identity |-> r.identity,
             leases |-> r.leases, released |-> rel, read |-> read, exit |-> exit]
    IN  IF offset0 + 8 >= buf.len
        THEN out([rec EXCEPT !.identity = identity], {}, 0, "header")
        ELSE IF ~ob.ok THEN out(hdr, {}, ob.read, "offline")
        ELSE IF storeType = "standard"
        THEN LET r == [hdr EXCEPT !.exp = std.exp, !.leases = std.leases]
             IN IF std.s = 0 THEN out(r, std.released, std.read, "part")
                ELSE out([r EXCEPT !.valid = VerifySignature(buf, sigLen, ob.offset + std.s)],
                         std.released,
                         IF ob.offset + std.s + sigLen > buf.len THEN std.read
                         ELSE ob.offset + std.s + sigLen,
                         "verified")
        ELSE IF storeType = "meta"
        THEN IF meta.s = 0 THEN out(hdr, {}, meta.read, "part")
             ELSE out([hdr EXCEPT !.valid = VerifySignature(buf, sigLen, ob.offset + meta.s)],
                      {},
                      IF ob.offset + meta.s + sigLen > buf.len THEN meta.read
                      ELSE ob.offset + meta.s + sigLen,
                      "verified")
        ELSE out(hdr, {}, ob.read, "type")

\* LeaseSet2::ReadFromBufferEncrypted (buf, len).  The blinded key type is
\* read before any check: of a buffer of less than 2 bytes it reads as a
\* key type that is known or unknown, and the decode ends either way at the
\* first check of the length.
ReadFromBufferEncrypted(rec, buf) ==
    LET offset0 == 2 + buf.blinded.keyLen
        exp1 == U64((buf.timestamp + buf.expires) * 1000)
        hdr == [rec EXCEPT !.exp = exp1]
        ob == IF buf.offline THEN OfflineBlock(buf, offset0 + 8, buf.blinded.sigLen)
              ELSE [ok |-> TRUE, offset |-> offset0 + 8, read |-> offset0 + 8]
        sigLen == IF buf.offline THEN buf.offkey.sigLen ELSE buf.blinded.sigLen
        sigOffset == ob.offset + 2 + buf.outerLen
        out(r, read, exit) ==
            [valid |-> r.valid, store |-> r.store, exp |-> r.exp, identity |-> r.identity,
             leases |-> r.leases, released |-> {}, read |-> read, exit |-> exit]
    IN  IF ~buf.blinded.known THEN out(rec, 2, "type")
        ELSE IF offset0 >= buf.len THEN out(rec, 2, "header")
        ELSE IF offset0 + 8 >= buf.len THEN out(rec, offset0, "header")
        ELSE IF ~ob.ok THEN out(hdr, ob.read, "offline")
        ELSE IF ob.offset + 2 > buf.len THEN out(hdr, ob.read, "part")
        ELSE out([hdr EXCEPT !.valid = VerifySignature(buf, sigLen, sigOffset)],
                 IF sigOffset + sigLen > buf.len THEN ob.offset + 2 ELSE sigOffset + sigLen,
                 "verified")

\* LeaseSet2 (storeType, buf, len, storeLeases)
LeaseSet2(storeType, buf, storeLeases, ts) ==
    LET rec == [valid |-> FALSE, store |-> storeLeases, exp |-> 0,
                identity |-> NoIdentity, leases |-> {}]
    IN IF storeType = "encrypted" THEN ReadFromBufferEncrypted(rec, buf)
       ELSE ReadFromBuffer2(rec, buf, storeType, ts)

(***************************************************************************)
(* LeaseSet2 inputs.                                                       *)
(***************************************************************************)
\* end dates in seconds
WireLeases2 ==
    { [tunnelGateway |-> l.tunnelGateway, tunnelID |-> l.tunnelID,
       endDate |-> l.endDate \div 1000] : l \in WireLeases }

LeaseLists2 ==
    SeqsUpTo(WireLeases2, MaxNum)
    \cup TwiceLists(WireLeases2)
    \cup { Repeated(l, MAX_NUM_LEASES + 1) : l \in { w \in WireLeases2 : w.tunnelID = 1 /\ w.tunnelGateway = 1 } }

\* an EdDSA key: the blinded key or the offline key
Ed25519 == [known |-> TRUE, keyLen |-> 32, sigLen |-> 64]
UnknownKey == [known |-> FALSE, keyLen |-> 0, sigLen |-> 0]

\* no offline key, one that the identity certifies, one it does not
OfflineKeys ==
    { [offline |-> FALSE, key |-> [known |-> FALSE, keyLen |-> 0, sigLen |-> 0, certOK |-> FALSE]],
      [offline |-> TRUE, key |-> [known |-> TRUE, keyLen |-> 32, sigLen |-> 64, certOK |-> TRUE]],
      [offline |-> TRUE, key |-> [known |-> TRUE, keyLen |-> 32, sigLen |-> 64, certOK |-> FALSE]] }

RECURSIVE SumKeys(_, _)
SumKeys(keys, i) == IF i > Len(keys) THEN 0 ELSE 4 + keys[i] + SumKeys(keys, i + 1)

\* the fields of a v2 buffer; len is set by the families below
Buffer2(o, keys, leases, entries, revocations, blinded, outerLen, ok) ==
    [id |-> StdIdentity, blinded |-> blinded, timestamp |-> 50, expires |-> 10,
     offline |-> o.offline, offkey |-> o.key, propertiesLen |-> 0, keys |-> keys,
     numLeases |-> Len(leases), leases |-> leases, numEntries |-> entries,
     numRevocations |-> revocations, outerLen |-> outerLen, sigOK |-> ok, len |-> 0]

\* the bytes of the offline key block after a header that ends at offset
OfflineLen(b, sigLen) == IF b.offline THEN 6 + b.offkey.keyLen + sigLen ELSE 0
\* the signature that ends the buffer
SignatureLen(b, sigLen) == IF b.offline THEN b.offkey.sigLen ELSE sigLen

StandardLen(b) ==
    b.id.fullLen + 8 + OfflineLen(b, b.id.sigLen)
    + 2 + b.propertiesLen + 1 + SumKeys(b.keys, 1) + 1 + b.numLeases * LEASE2_SIZE
    + SignatureLen(b, b.id.sigLen)

MetaLen(b) ==
    b.id.fullLen + 8 + OfflineLen(b, b.id.sigLen)
    + 2 + b.propertiesLen + 1 + b.numEntries * 40 + 1 + b.numRevocations * 32
    + SignatureLen(b, b.id.sigLen)

EncryptedLen(b) ==
    2 + b.blinded.keyLen + 8 + OfflineLen(b, b.blinded.sigLen) + 2 + b.outerLen
    + SignatureLen(b, b.blinded.sigLen)

WithLen(b, n) == [b EXCEPT !.len = n]

\* v2 buffers that hold everything they declare
StandardBuffers ==
    { WithLen(b, StandardLen(b)) :
        b \in { Buffer2(o, << 32 >>, ls, 0, 0, UnknownKey, 0, ok) :
                  o \in OfflineKeys, ls \in LeaseLists2, ok \in BOOLEAN } }

MetaBuffers ==
    { WithLen(b, MetaLen(b)) :
        b \in { Buffer2(o, << >>, << >>, e, r, UnknownKey, 0, ok) :
                  o \in OfflineKeys, e \in 0..1, r \in 0..1, ok \in BOOLEAN } }

EncryptedBuffers ==
    { WithLen(b, EncryptedLen(b)) :
        b \in { Buffer2(o, << >>, << >>, 0, 0, k, n, ok) :
                  o \in OfflineKeys, k \in { Ed25519, UnknownKey }, n \in { 0, 5 },
                  ok \in BOOLEAN } }

\* the store types and the buffers decoded under each
StoreTypes == { "standard", "meta", "encrypted", "other" }
Buffers2(storeType) ==
    CASE storeType = "standard" -> StandardBuffers
      [] storeType = "meta" -> MetaBuffers
      [] storeType = "encrypted" -> EncryptedBuffers
      [] OTHER -> { b \in MetaBuffers : ~b.offline /\ b.numEntries = 0 }

(***************************************************************************)
(* The legacy record: construction, Update, PopulateLeases.                *)
(***************************************************************************)
\* LeaseSet (buf, len, storeLeases) at every clock reading
InitLegacy(buffers) ==
    /\ now \in Times
    /\ m_StoreType = "legacy"
    /\ cand = NoBuffer
    /\ result = 0
    /\ \E buf \in buffers, storeLeases \in BOOLEAN :
        LET rec == [valid |-> TRUE, store |-> storeLeases, exp |-> 0,
                    identity |-> NoIdentity, leases |-> {}]
        IN \E view \in ReadViews(buf, IdentityEx(buf)) :
            \E verified \in VerifyViews(buf, IdentityEx(buf), NumOffset(IdentityEx(buf)) + 1 + view.num * LEASE_SIZE) :
            LET r == ReadFromBuffer(rec, buf, view, TRUE, TRUE, now, verified)
            IN  /\ m_IsValid = r.valid
                /\ m_StoreLeases = r.store
                /\ m_ExpirationTime = r.exp
                /\ m_Identity = r.identity
                /\ m_Buffer = buf
                /\ m_Leases = r.leases
                /\ released = r.released
                /\ maxRead = r.read
                /\ lastOp = [op |-> "LeaseSet", verify |-> TRUE, exit |-> r.exit, repeat |-> FALSE]

\* LeaseSet2 (storeType, buf, len, storeLeases) at every clock reading
InitV2(buffers) ==
    /\ now \in Times
    /\ m_StoreType \in StoreTypes
    /\ cand = NoBuffer
    /\ result = 0
    /\ \E buf \in buffers[m_StoreType], storeLeases \in BOOLEAN :
        LET r == LeaseSet2(m_StoreType, buf, storeLeases, now)
        IN  /\ m_IsValid = r.valid
            /\ m_StoreLeases = r.store
            /\ m_ExpirationTime = r.exp
            /\ m_Identity = r.identity
            /\ m_Buffer = buf
            /\ m_Leases = r.leases
            /\ released = r.released
            /\ maxRead = r.read
            /\ lastOp = [op |-> "LeaseSet2", verify |-> TRUE, exit |-> r.exit, repeat |-> FALSE]

Init ==
    \/ InitLegacy(CompleteBuffers \cup ShortBuffers)
    \/ InitV2([t \in StoreTypes |-> Buffers2(t)])

\* Update and PopulateLeases decode the legacy format: they are the legacy
\* record's.
Update(buf, verifySignature) ==
    /\ m_StoreType = "legacy"
    /\ \E view \in ReadViews(buf, m_Identity) :
        \E verified \in VerifyViews(buf, m_Identity, NumOffset(m_Identity) + 1 + view.num * LEASE_SIZE) :
            Decoded(ReadFromBuffer(Record, buf, view, FALSE, verifySignature, now, verified),
                    buf, "Update", verifySignature,
                    IsDecode(lastOp.op) /\ m_StoreLeases /\ buf = m_Buffer)
    /\ UNCHANGED << now, m_StoreType, cand, result >>

PopulateLeases ==
    /\ m_StoreType = "legacy"
    /\ \E view \in ReadViews(m_Buffer, m_Identity) :
        \E verified \in VerifyViews(m_Buffer, m_Identity, NumOffset(m_Identity) + 1 + view.num * LEASE_SIZE) :
            Decoded(ReadFromBuffer([Record EXCEPT !.store = TRUE], m_Buffer, view, FALSE, TRUE, now, verified),
                    m_Buffer, "PopulateLeases", TRUE, FALSE)
    /\ UNCHANGED << now, m_StoreType, cand, result >>

\* the clock moves on
Tick ==
    /\ \E t \in Times : t > now /\ now' = t
    /\ lastOp' = [op |-> "Tick", verify |-> FALSE, exit |-> "none", repeat |-> FALSE]
    /\ UNCHANGED << m_IsValid, m_StoreLeases, m_ExpirationTime, m_Identity, m_Buffer,
                    m_Leases, released, maxRead, m_StoreType, cand, result >>

Next ==
    \/ \E buf \in CompleteBuffers \cup ShortBuffers, v \in BOOLEAN : Update(buf, v)
    \/ PopulateLeases
    \/ Tick

Spec == Init /\ [][Next]_vars

(***************************************************************************)
(* Truncated buffers: a buffer cut before its signature.                   *)
(***************************************************************************)
\* the lease lists of the buffers that are cut: two leases of one gateway
TruncLists ==
    { ls \in SeqsUpTo({ w \in WireLeases : w.tunnelGateway = 1 }, 2) : Len(ls) = 2 }

TruncBases == { b \in CompleteBuffers : b.sigOK /\ b.leases \in TruncLists }

\* the offset of the signature of a legacy buffer
SignatureOffset(b) == LeaseEnd(b.id, b.num)

\* the cuts of a legacy buffer before its signature that lie next to the
\* checks and the reads of the decoder
BoundaryLengths(b) ==
    { n \in { 0, b.id.fullLen - 1, b.id.fullLen, NumOffset(b.id), NumOffset(b.id) + 1,
              LeaseEnd(b.id, 1), SignatureOffset(b) - 1 } : n < SignatureOffset(b) }

TruncatedBuffers ==
    UNION { { WithLen(b, n) : n \in BoundaryLengths(b) } : b \in TruncBases }

\* the lease lists of the v2 buffers that are cut: none expired
TruncLists2 ==
    { ls \in SeqsUpTo({ w \in WireLeases2 : w.tunnelGateway = 1 /\ w.endDate = 300 }, MaxNum) :
        Len(ls) >= 1 }

\* v2 buffers with and without an offline key, cut at every length before
\* the signature
TruncBases2(storeType) ==
    { b \in Buffers2(storeType) :
        /\ b.sigOK
        /\ b.offline => b.offkey.certOK
        /\ b.leases \in { << >> } \cup TruncLists2 }

SignatureOffset2(storeType, b) ==
    b.len - SignatureLen(b, IF storeType = "encrypted" THEN b.blinded.sigLen ELSE b.id.sigLen)

TruncatedBuffers2(storeType) ==
    UNION { { WithLen(b, n) : n \in 0..(SignatureOffset2(storeType, b) - 1) } :
            b \in TruncBases2(storeType) }

InitTrunc ==
    \/ InitLegacy(TruncatedBuffers)
    \/ InitV2([t \in StoreTypes |-> TruncatedBuffers2(t)])

NextTrunc ==
    \/ \E buf \in TruncatedBuffers, v \in BOOLEAN : Update(buf, v)
    \/ PopulateLeases
    \/ Tick

SpecTrunc == InitTrunc /\ [][NextTrunc]_vars

(***************************************************************************)
(* ExtractTimestamp and IsNewer.                                           *)
(***************************************************************************)
\* the loop of ExtractTimestamp over the leases from the i-th on
RECURSIVE ExtractLoop(_, _, _)
ExtractLoop(ls, i, timestamp) ==
    IF i > Len(ls) THEN timestamp
    ELSE ExtractLoop(ls, i + 1,
                     IF timestamp = 0 \/ ls[i].endDate < timestamp
                     THEN ls[i].endDate ELSE timestamp)

\* ExtractTimestamp (buf, len) of a record of this identity.  When the
\* count byte lies at offset len it is read outside the buffer, and the
\* check that follows fails whatever it reads as.
ExtractTimestamp(identity, buf) ==
    IF identity.none THEN 0
    ELSE IF identity.fullLen > buf.len THEN 0
    ELSE IF NumOffset(identity) > buf.len THEN 0
    ELSE IF NumOffset(identity) = buf.len THEN 0
    ELSE IF NumOffset(identity) + 1 + buf.num * LEASE_SIZE > buf.len THEN 0
    ELSE ExtractLoop(buf.leases, 1, 0)

\* IsNewer (buf, len) of the record that holds the buffer current
IsNewer(identity, current, buf) ==
    ExtractTimestamp(identity, buf) > ExtractTimestamp(identity, current)

\* lease end dates of the buffers compared
TsDates == { 0, 100, 200, 300, 900, 300000 }

\* the lists of one or two leases of these end dates, in every order
TsLists ==
    LET lease(i, e) == [tunnelGateway |-> 1, tunnelID |-> i, endDate |-> e]
    IN { << lease(1, e) >> : e \in TsDates }
       \cup { << lease(1, e), lease(2, f) >> : e \in TsDates, f \in TsDates }

TsBuffers ==
    { [id |-> StdIdentity, num |-> Len(ls), leases |-> ls, sigOK |-> TRUE,
       len |-> LegacyLen(StdIdentity, Len(ls))] : ls \in TsLists }

\* the record asked whether buf is newer than the buffer it holds
IsNewerCalled(buf) ==
    /\ m_StoreType = "legacy"
    /\ cand' = buf
    /\ result' = [timestamp |-> ExtractTimestamp(m_Identity, buf),
                  current |-> ExtractTimestamp(m_Identity, m_Buffer),
                  newer |-> IsNewer(m_Identity, m_Buffer, buf)]
    /\ lastOp' = [op |-> "IsNewer", verify |-> FALSE, exit |-> "none", repeat |-> FALSE]
    /\ UNCHANGED << m_IsValid, m_StoreLeases, m_ExpirationTime, m_Identity, m_Buffer,
                    m_Leases, released, now, maxRead, m_StoreType >>

InitTs == InitLegacy(TsBuffers)

NextTs == \E buf \in TsBuffers : IsNewerCalled(buf)

SpecTs == InitTs /\ [][NextTs]_vars

(***************************************************************************)
(* The local lease sets.                                                   *)
(***************************************************************************)
\* int num = tunnels.size (); if (num > MAX_NUM_LEASES) num = MAX_NUM_LEASES
NumLeases(tunnels) == IF Len(tunnels) > MAX_NUM_LEASES THEN MAX_NUM_LEASES ELSE Len(tunnels)

\* the threshold is left out of the end date of a tunnel
TunnelEndDate_NoThreshold(tunnel) == tunnel.creationTime + TUNNEL_EXPIRATION_TIMEOUT

\* GetCreationTime () + TUNNEL_EXPIRATION_TIMEOUT - TUNNEL_EXPIRATION_THRESHOLD,
\* in seconds
TunnelEndDate(tunnel) ==
    tunnel.creationTime + TUNNEL_EXPIRATION_TIMEOUT - TUNNEL_EXPIRATION_THRESHOLD

\* what the legacy form adds to the end date it encodes
Jitter(tunnel, currentTime) ==
    (U64(currentTime - tunnel.creationTime * 1000) * 2) \div TUNNEL_EXPIRATION_TIMEOUT

\* the loop over the first num tunnels from the i-th on: the greatest end
\* date (in units of scale ms) so far
RECURSIVE MaxEndDate(_, _, _, _, _)
MaxEndDate(tunnels, num, i, scale, exp) ==
    IF i > num THEN exp
    ELSE LET ts == U64(TunnelEndDate(tunnels[i]) * scale)
         IN MaxEndDate(tunnels, num, i + 1, scale, IF ts > exp THEN ts ELSE exp)

\* LocalLeaseSet (identity, encryptionPublicKey, tunnels): the expiration
\* time and the unsigned buffer
LocalLeaseSet(identity, tunnels, currentTime) ==
    LET num == NumLeases(tunnels)
    IN [exp |-> MaxEndDate(tunnels, num, 1, 1000, 0),
        buffer |->
            [id |-> identity, num |-> num,
             leases |-> [i \in 1..num |->
                 [tunnelGateway |-> tunnels[i].nextIdentHash,
                  tunnelID |-> tunnels[i].nextTunnelID,
                  endDate |-> U64(U64(TunnelEndDate(tunnels[i]) * 1000)
                                  + Jitter(tunnels[i], currentTime))]],
             sigOK |-> FALSE, len |-> LegacyLen(identity, num)]]

\* LocalLeaseSet2 (storeType, identity, keyType, keyLen, encryptionPublicKey,
\* tunnels); timestamp: GetSecondsSinceEpoch ().  expires is unsigned and
\* is stored in 16 bits.
LocalLeaseSet2(identity, keyLen, tunnels, timestamp) ==
    LET num == NumLeases(tunnels)
        expirationTime == MaxEndDate(tunnels, num, 1, 1, 0)
        b == [Buffer2([offline |-> FALSE,
                       key |-> [known |-> FALSE, keyLen |-> 0, sigLen |-> 0, certOK |-> FALSE]],
                      << keyLen >>,
                      [i \in 1..num |->
                          [tunnelGateway |-> tunnels[i].nextIdentHash,
                           tunnelID |-> tunnels[i].nextTunnelID,
                           endDate |-> TunnelEndDate(tunnels[i])]],
                      0, 0, UnknownKey, 0, FALSE)
              EXCEPT !.id = identity, !.timestamp = timestamp,
                     !.expires = (expirationTime - timestamp) % 65536]
    IN [exp |-> U64(expirationTime * 1000),
        buffer |-> WithLen(b, StandardLen(b))]

\* LocalLeaseSet::IsExpired
LocalIsExpired(exp, ts) == ts > exp

\* the lists of up to n elements of S
RECURSIVE SeqsOf(_, _)
SeqsOf(S, n) ==
    IF n = 0 THEN { << >> }
    ELSE LET shorter == SeqsOf(S, n - 1)
         IN shorter \cup { Append(q, x) : q \in { t \in shorter : Len(t) = n - 1 }, x \in S }

\* tunnel creation times (s) and the clock readings (ms) of the local node
CreationTimes == { 100, 200, 400 }
LocalTimes == { 400000, 430000, 460000 }

Tunnel(i, t) == [creationTime |-> t, nextIdentHash |-> 1, nextTunnelID |-> i]

\* the tunnels supplied: up to MaxNum tunnels, and MAX_NUM_LEASES tunnels
\* of one creation time with or without one more
TunnelLists ==
    SeqsOf(CreationTimes, MaxNum)
    \cup { [i \in 1..MAX_NUM_LEASES |-> a] : a \in CreationTimes }
    \cup { [i \in 1..(MAX_NUM_LEASES + 1) |-> IF i <= MAX_NUM_LEASES THEN a ELSE b] :
            a \in CreationTimes, b \in CreationTimes }

Tunnels(times) == [i \in 1..Len(times) |-> Tunnel(i, times[i])]

\* the variables of a local lease set r built of tunnels
Built(r, tunnels, op) ==
    /\ m_ExpirationTime' = r.exp
    /\ m_Buffer' = r.buffer
    /\ m_Identity' = StdIdentity
    /\ cand' = tunnels
    /\ lastOp' = [op |-> op, verify |-> FALSE, exit |-> "none", repeat |-> FALSE]
    /\ UNCHANGED << m_IsValid, m_StoreLeases, m_Leases, released, now, maxRead, result >>

\* the destination builds its legacy lease set of its tunnels
BuildLocalLeaseSet(tunnels) ==
    /\ m_StoreType' = "local"
    /\ Built(LocalLeaseSet(StdIdentity, tunnels, now), tunnels, "LocalLeaseSet")

\* the destination builds its v2 lease set of its tunnels, with an
\* encryption key of 32 bytes
BuildLocalLeaseSet2(tunnels) ==
    /\ m_StoreType' = "local2"
    /\ Built(LocalLeaseSet2(StdIdentity, 32, tunnels, now \div 1000), tunnels,
             "LocalLeaseSet2")

\* the clock of the local node moves on
TickLocal ==
    /\ \E t \in LocalTimes : t > now /\ now' = t
    /\ lastOp' = [op |-> "Tick", verify |-> FALSE, exit |-> "none", repeat |-> FALSE]
    /\ UNCHANGED << m_IsValid, m_StoreLeases, m_ExpirationTime, m_Identity, m_Buffer,
                    m_Leases, released, maxRead, m_StoreType, cand, result >>

\* LocalLeaseSet (identity, buf, len) of no buffer: nothing is published yet
InitLocal ==
    /\ now \in LocalTimes
    /\ m_StoreType = "local"
    /\ m_ExpirationTime = 0
    /\ m_Identity = StdIdentity
    /\ m_Buffer = NoBuffer
    /\ m_IsValid = TRUE
    /\ m_StoreLeases = FALSE
    /\ m_Leases = {}
    /\ released = {}
    /\ maxRead = 0
    /\ cand = << >>
    /\ result = 0
    /\ lastOp = [op |-> "LocalLeaseSet (buf)", verify |-> FALSE, exit |-> "none", repeat |-> FALSE]

NextLocal ==
    \/ \E times \in TunnelLists : BuildLocalLeaseSet(Tunnels(times))
    \/ \E times \in TunnelLists : BuildLocalLeaseSet2(Tunnels(times))
    \/ TickLocal

SpecLocal == InitLocal /\ [][NextLocal]_vars

(***************************************************************************)
(* Queries.                                                                *)
(***************************************************************************)
\* exclude: the Lease objects the caller's predicate holds of
GetNonExpiredLeasesExcluding(leases, exclude, withThreshold, ts) ==
    { l \in leases :
        /\ ts < (IF withThreshold THEN U64(l.endDate + LEASE_ENDDATE_THRESHOLD)
                 ELSE U64(l.endDate - LEASE_ENDDATE_THRESHOLD))
        /\ l \notin exclude }

GetNonExpiredLeases(leases, withThreshold, ts) ==
    GetNonExpiredLeasesExcluding(leases, {}, withThreshold, ts)

HasExpiredLeases(leases, ts) == \E l \in leases : ts >= l.endDate

IsExpired(store, leases, exp, ts) == (store /\ leases = {}) \/ ts > exp

(***************************************************************************)
(* What the claims speak of.                                               *)
(***************************************************************************)
Legacy == m_StoreType = "legacy"

\* (gateway, tunnel id, end date) of the Lease objects of a set
KeyDates(leases) ==
    { [tunnelGateway |-> l.tunnelGateway, tunnelID |-> l.tunnelID, endDate |-> l.endDate] :
        l \in leases }

Keys(leases) == { << l.tunnelGateway, l.tunnelID >> : l \in leases }

\* a lease of an incoming record is non-expired at ts
NonExpiredAt(endDate, ts) == ts < (endDate + LEASE_ENDDATE_THRESHOLD) % Word

\* the end dates (ms) of the leases an incoming buffer lists
EndDateMs(buf, i) ==
    IF Legacy THEN buf.leases[i].endDate ELSE (buf.leases[i].endDate * 1000) % Word

\* The leases of the incoming buffer whose key appears non-expired, each
\* with the end date of the last non-expired entry of its key.
Incoming(buf, ts) ==
    LET live == { i \in 1..Len(buf.leases) : NonExpiredAt(EndDateMs(buf, i), ts) }
        last(i) == \A j \in live : SameKey(buf.leases[i], buf.leases[j]) => j <= i
    IN { [tunnelGateway |-> buf.leases[i].tunnelGateway, tunnelID |-> buf.leases[i].tunnelID,
          endDate |-> EndDateMs(buf, i)] : i \in { k \in live : last(k) } }

\* a legacy buffer whose decode reaches the lease list: the record's
\* identity fits and the lease count is in 1..MAX_NUM_LEASES
ReachesLeases(identity, buf) ==
    /\ identity.fullLen <= buf.len
    /\ buf.num >= 1
    /\ buf.num <= MAX_NUM_LEASES

\* a v2 standard buffer, holding what it declares, whose decode reaches the
\* lease list: the offline key, if any, is certified
ReachesLeases2(buf) == buf.offline => (buf.offkey.known /\ buf.offkey.certOK)

\* the Lease objects of old whose key is not in new are released, with end
\* date 0
Zeroed(old, new, rel) ==
    \A l \in old :
        << l.tunnelGateway, l.tunnelID >> \notin Keys(new)
            => \E z \in rel : SameKey(z, l) /\ z.endDate = 0

NoTwoOfOneKey(leases) == \A a, b \in leases : SameKey(a, b) => a = b

(***************************************************************************)
(* C1, as stated: every decode of a materializing record that reaches the  *)
(* lease list ends with exactly the leases whose key appears non-expired   *)
(* in the incoming record, each with the incoming end date, and every      *)
(* other lease of the set removed and its Lease object zeroed.             *)
(***************************************************************************)
C1_Reconciled_Every ==
    [][ ( /\ Legacy
          /\ IsDecode(lastOp'.op)
          /\ m_StoreLeases'
          /\ ReachesLeases(m_Identity', m_Buffer') )
        => ( /\ KeyDates(m_Leases') = Incoming(m_Buffer', now')
             /\ Zeroed(m_Leases, m_Leases', released') ) ]_vars

(***************************************************************************)
(* C1, restated: the same of every legacy decode that reaches the lease    *)
(* list and finds a lease non-expired, and of every v2 standard decode of  *)
(* a buffer that holds the leases it declares.  (A legacy decode that      *)
(* finds every lease expired returns before UpdateLeasesEnd.)              *)
(***************************************************************************)
C1_Reconciled ==
    /\ [][ ( /\ Legacy
             /\ IsDecode(lastOp'.op)
             /\ m_StoreLeases'
             /\ ReachesLeases(m_Identity', m_Buffer')
             /\ Incoming(m_Buffer', now') # {} )
           => ( /\ KeyDates(m_Leases') = Incoming(m_Buffer', now')
                /\ NoTwoOfOneKey(m_Leases')
                /\ Zeroed(m_Leases, m_Leases', released') ) ]_vars
    /\ []( ( /\ m_StoreType = "standard"
             /\ lastOp.op = "LeaseSet2"
             /\ m_StoreLeases
             /\ ReachesLeases2(m_Buffer) )
           => ( /\ KeyDates(m_Leases) = Incoming(m_Buffer, now)
                /\ NoTwoOfOneKey(m_Leases) ) )

\* {A, B} held, {A, C} incoming: A updated, C inserted, B released zeroed
C1_Witness ==
    /\ Legacy
    /\ lastOp.op = "Update"
    /\ Keys(m_Leases) = { <<1, 1>>, <<2, 1>> }
    /\ \E z \in released : z.tunnelGateway = 1 /\ z.tunnelID = 2 /\ z.endDate = 0

(***************************************************************************)
(* C2: the decode of a buffer cut before its signature leaves the record   *)
(* invalid and reads no byte at or beyond the supplied length (under       *)
(* SpecTrunc every buffer decoded is cut before its signature).            *)
(***************************************************************************)
C2_TruncatedInvalidNoOverread ==
    /\ ~m_IsValid
    /\ maxRead <= m_Buffer.len

\* cut buffers are decoded by every decoder, and by Update
C2_Witness ==
    /\ lastOp.op = "Update"
    /\ m_Buffer \in TruncatedBuffers
    /\ m_Buffer.len >= NumOffset(m_Buffer.id) + 1

(***************************************************************************)
(* C3: a declared lease count of 0, or above MAX_NUM_LEASES, yields an     *)
(* invalid record, for a legacy buffer and for a v2 standard buffer.       *)
(***************************************************************************)
BadCount(n) == n = 0 \/ n > MAX_NUM_LEASES

C3_BadCountInvalid ==
    /\ (Legacy /\ IsDecode(lastOp.op) /\ m_Identity.fullLen <= m_Buffer.len
          /\ BadCount(m_Buffer.num))
        => ~m_IsValid
    /\ (m_StoreType = "standard" /\ lastOp.op = "LeaseSet2" /\ BadCount(m_Buffer.numLeases))
        => ~m_IsValid

\* the legacy half of C3 has its case: a legacy decode of a bad count
C3_LegacyWitness ==
    /\ Legacy
    /\ lastOp.op = "Update"
    /\ m_Buffer.num > MAX_NUM_LEASES
    /\ m_Buffer.sigOK
    /\ ~m_IsValid

(***************************************************************************)
(* C4, as stated: after construction and after every Update of a legacy    *)
(* record, isValid is true exactly when the buffer decoded last passes the *)
(* checks: the identity fits, the lease count is in 1..MAX_NUM_LEASES, a   *)
(* lease is non-expired, and the signature verifies when verification was  *)
(* requested.                                                              *)
(***************************************************************************)
PassesChecks(identity, buf, ts, verify) ==
    /\ ReachesLeases(identity, buf)
    /\ \E i \in 1..Len(buf.leases) : NonExpiredAt(buf.leases[i].endDate, ts)
    /\ verify => buf.sigOK

C4_ValidReflectsLast ==
    (Legacy /\ lastOp.op \in { "LeaseSet", "Update" })
        => (m_IsValid <=> PassesChecks(m_Identity, m_Buffer, now, lastOp.verify))

(***************************************************************************)
(* C4, restated: isValid is true after construction exactly when the       *)
(* buffer passes the checks, and after an Update or PopulateLeases exactly *)
(* when it was true before and the buffer decoded passes the checks: a     *)
(* decode never sets isValid back to true, and isValid is never true after *)
(* a decode in which a check failed.                                       *)
(***************************************************************************)
C4_ValidOnceInvalid ==
    /\ []( (Legacy /\ lastOp.op = "LeaseSet")
             => (m_IsValid <=> PassesChecks(m_Identity, m_Buffer, now, TRUE)) )
    /\ [][ (Legacy /\ IsDecode(lastOp'.op))
             => (m_IsValid' <=>
                   (m_IsValid /\ PassesChecks(m_Identity', m_Buffer', now', lastOp'.verify))) ]_vars

\* an Update of a buffer that passes every check, on a record a former
\* decode made invalid
C4_Witness ==
    /\ Legacy
    /\ lastOp.op = "Update"
    /\ lastOp.exit = "ok"
    /\ lastOp.verify
    /\ m_Buffer.sigOK
    /\ ~m_IsValid

(***************************************************************************)
(* C5: an Update with verification of a legacy buffer that parses and has  *)
(* a non-expired lease, and whose signature does not verify, ends with     *)
(* isValid false and the lease set reconciled with the new payload: new    *)
(* leases in, matching leases' end dates overwritten, absent leases        *)
(* removed and zeroed.                                                     *)
(***************************************************************************)
C5_SignatureFailureKeepsLeases ==
    [][ ( /\ Legacy
          /\ lastOp'.op = "Update"
          /\ lastOp'.verify
          /\ ~m_Buffer'.sigOK
          /\ ReachesLeases(m_Identity', m_Buffer')
          /\ Incoming(m_Buffer', now') # {} )
        => ( /\ ~m_IsValid'
             /\ m_StoreLeases' =>
                  ( /\ KeyDates(m_Leases') = Incoming(m_Buffer', now')
                    /\ Zeroed(m_Leases, m_Leases', released') ) ) ]_vars

\* the signature failed and the set is not the one held before: a lease
\* went out and one came in
C5_Witness ==
    /\ Legacy
    /\ lastOp.op = "Update"
    /\ lastOp.exit = "sig"
    /\ ~m_IsValid
    /\ released # {}
    /\ Cardinality(m_Leases) = 2

(***************************************************************************)
(* C6: on a materializing record, an Update of the buffer decoded last, at *)
(* the same time, leaves the lease set as it was: the same keys and end    *)
(* dates, no key twice, nothing removed or zeroed.                         *)
(***************************************************************************)
C6_Idempotent ==
    [][ ( /\ Legacy
          /\ lastOp'.op = "Update"
          /\ IsDecode(lastOp.op)
          /\ m_StoreLeases
          /\ m_Buffer' = m_Buffer
          /\ now' = now )
        => ( /\ KeyDates(m_Leases') = KeyDates(m_Leases)
             /\ NoTwoOfOneKey(m_Leases')
             /\ released' = {} ) ]_vars

\* the second decode of a buffer of two leases has been done
C6_Witness ==
    /\ Legacy
    /\ lastOp.op = "Update"
    /\ lastOp.repeat
    /\ lastOp.exit = "ok"
    /\ Cardinality(m_Leases) = 2

(***************************************************************************)
(* C7: ExtractTimestamp returns the minimum end date among the leases of   *)
(* the buffer, end dates of 0 included, and IsNewer is true exactly when   *)
(* the candidate's minimum end date is greater than the minimum end date   *)
(* of the buffer the record holds.                                         *)
(***************************************************************************)
MinEndDate(buf) ==
    LET dates == { buf.leases[i].endDate : i \in 1..Len(buf.leases) }
    IN CHOOSE m \in dates : \A d \in dates : m <= d

C7_MinimumEndDate ==
    lastOp.op = "IsNewer" =>
        /\ result.timestamp = MinEndDate(cand)
        /\ result.newer = (MinEndDate(cand) > MinEndDate(m_Buffer))

\* a buffer with a lease of end date 0 before another has been asked about
C7_Witness ==
    /\ lastOp.op = "IsNewer"
    /\ Len(cand.leases) > 1
    /\ cand.leases[1].endDate = 0
    /\ cand.leases[2].endDate > 0

(***************************************************************************)
(* C8: the leases GetNonExpiredLeasesExcluding returns with the threshold  *)
(* include those it returns without, for every predicate, at the same      *)
(* time.                                                                   *)
(***************************************************************************)
C8_ThresholdSuperset ==
    \A exclude \in SUBSET m_Leases :
        GetNonExpiredLeasesExcluding(m_Leases, exclude, FALSE, now)
            \subseteq GetNonExpiredLeasesExcluding(m_Leases, exclude, TRUE, now)

(***************************************************************************)
(* C9 as stated: the expiration time of a local lease set built of any     *)
(* list of tunnels is (the greatest creation time of the tunnels +         *)
(* TUNNEL_EXPIRATION_TIMEOUT - TUNNEL_EXPIRATION_THRESHOLD) in ms.         *)
(***************************************************************************)
IsLocalBuild == lastOp.op \in { "LocalLeaseSet", "LocalLeaseSet2" }

\* (the greatest creation time of the first n tunnels + timeout - threshold)
\* in milliseconds
ExpirationOfFirst(tunnels, n) ==
    LET times == { tunnels[i].creationTime : i \in 1..n }
        latest == CHOOSE m \in times : \A t \in times : t <= m
    IN (latest + TUNNEL_EXPIRATION_TIMEOUT - TUNNEL_EXPIRATION_THRESHOLD) * 1000

C9_LocalExpiration_Every ==
    (IsLocalBuild /\ Len(cand) > 0) =>
        m_ExpirationTime = ExpirationOfFirst(cand, Len(cand))

(***************************************************************************)
(* C9: the expiration time of a local lease set, legacy or v2, is (the     *)
(* greatest creation time of the first MAX_NUM_LEASES tunnels supplied +   *)
(* TUNNEL_EXPIRATION_TIMEOUT - TUNNEL_EXPIRATION_THRESHOLD) in ms, and 0   *)
(* when no tunnel is supplied; it does not include the jitter that the     *)
(* legacy form adds to the end dates it encodes, which are each the        *)
(* tunnel's end date plus (2 * time since creation / timeout).             *)
(***************************************************************************)
C9_LocalExpiration ==
    IsLocalBuild =>
        LET n == IF Len(cand) > MAX_NUM_LEASES THEN MAX_NUM_LEASES ELSE Len(cand)
            ms(i) == (cand[i].creationTime + TUNNEL_EXPIRATION_TIMEOUT
                      - TUNNEL_EXPIRATION_THRESHOLD) * 1000
        IN /\ m_ExpirationTime = IF n = 0 THEN 0 ELSE ExpirationOfFirst(cand, n)
           /\ Len(m_Buffer.leases) = n
           /\ lastOp.op = "LocalLeaseSet" =>
                \A i \in 1..n :
                    m_Buffer.leases[i].endDate =
                        ms(i) + ((now - cand[i].creationTime * 1000) * 2) \div TUNNEL_EXPIRATION_TIMEOUT

\* a legacy local lease set of more than MAX_NUM_LEASES tunnels, the last
\* the latest, whose encoded end dates carry jitter
C9_Witness ==
    /\ lastOp.op = "LocalLeaseSet"
    /\ Len(cand) > MAX_NUM_LEASES
    /\ cand[Len(cand)].creationTime > cand[1].creationTime
    /\ m_Buffer.leases[1].endDate > m_ExpirationTime

(***************************************************************************)
(* C10, as stated: in every state of a materializing legacy record every   *)
(* lease held has endDate + LEASE_ENDDATE_THRESHOLD <= expirationTime, so  *)
(* GetNonExpiredLeases (true) is empty whenever now > expirationTime.      *)
(***************************************************************************)
LeasesWithinExpiration ==
    /\ \A l \in m_Leases :
         (l.endDate + LEASE_ENDDATE_THRESHOLD) % Word <= m_ExpirationTime
    /\ now > m_ExpirationTime => GetNonExpiredLeases(m_Leases, TRUE, now) = {}

C10_LeasesWithinExpiration_Every ==
    (Legacy /\ m_StoreLeases) => LeasesWithinExpiration

(***************************************************************************)
(* C10, restated: the same in every state whose expirationTime is not 0.   *)
(* (A decode that finds every lease expired sets expirationTime to 0 and   *)
(* keeps the leases held; until a later decode finds a lease non-expired,  *)
(* IsExpired () is true and GetNonExpiredLeases (true) may return leases.) *)
(***************************************************************************)
C10_LeasesWithinExpiration ==
    (Legacy /\ m_StoreLeases /\ m_ExpirationTime # 0) => LeasesWithinExpiration

\* the record holds leases that have passed expirationTime: IsExpired () is
\* true by the clock and GetNonExpiredLeases (true) is empty
C10_Witness ==
    /\ Legacy
    /\ m_StoreLeases
    /\ m_Leases # {}
    /\ m_ExpirationTime # 0
    /\ now > m_ExpirationTime
    /\ IsExpired(m_StoreLeases, m_Leases, m_ExpirationTime, now)

(***************************************************************************)
(* C11: m_StoreLeases only ever changes from false to true, and only by    *)
(* PopulateLeases; a record that does not materialize holds no lease, so   *)
(* the clear () of UpdateLeasesBegin drops nothing; and every Lease object *)
(* that an operation takes out of the set has endDate 0: each lease of the *)
(* set whose key the set no longer holds is among them.                    *)
(***************************************************************************)
C11_StoreLeasesOnlyRises ==
    /\ [](~m_StoreLeases => m_Leases = {})
    /\ [](\A l \in released : l.endDate = 0)
    /\ [][ /\ m_StoreLeases => m_StoreLeases'
           /\ m_StoreLeases' # m_StoreLeases => lastOp'.op = "PopulateLeases"
           /\ (IsDecode(lastOp'.op) /\ ~m_StoreLeases) => m_Leases = {}
           /\ IsDecode(lastOp'.op) => Zeroed(m_Leases, m_Leases', released') ]_vars

\* PopulateLeases has made the record materialize the leases of its buffer,
\* and a lease it held before has left the set
C11_Witness ==
    /\ lastOp.op = "PopulateLeases"
    /\ m_StoreLeases
    /\ m_Leases # {}
    /\ released # {}

====
